---------------------------- MODULE Spec2Model ----------------------------
(* Model of model/password.go: one call of GeneratePasswords, from its     *)
(* entry to its return (or to the panic that ends it).  Characters are     *)
(* their ordinal values (all of the program's alphabets are ASCII), a      *)
(* string is a sequence of ordinals.                                       *)
EXTENDS Integers, Sequences, FiniteSets, TLC

VARIABLES
    opts,              \* the PasswordOptions the call was made with
    pc,                \* position of the call: batch, assemble, repair, redraw, done
    i,                 \* GeneratePasswords: loop index
    passwords,         \* GeneratePasswords: the list built so far
    password,          \* generatePassword: the byte buffer make([]byte, Length)
    j,                 \* generatePassword: assembly loop index
    runes,             \* removeSequentialCharacters: []rune(password)
    k,                 \* removeSequentialCharacters: scan index
    result,            \* removeSequentialCharacters: the strings.Builder
    replacementRunes,  \* generateNonSequentialChars: the replacement so far
    outcome,           \* running, ok (nil error), error (non-nil error), panic
    returned,          \* the []string handed to the caller (nil is <<>>)
    sampled,           \* whether crypto/rand was asked for a number in this call
    entropyFailed,     \* history: a rand.Int of this call returned an error
    repaired           \* history: removeSequentialCharacters replaced a run

vars == <<opts, pc, i, passwords, password, j, runes, k, result,
          replacementRunes, outcome, returned, sampled, entropyFailed,
          repaired>>

--------------------------------------------------------------------------
(* Bounds of the exploration *)

\* largest requested Length explored
MaxLength == 3

\* largest requested Quantity explored
MaxQuantity == 2

\* largest Length * Quantity explored
MaxBatchChars == 3

\* longest string handed to removeSequentialCharacters when it is explored
\* on its own
MaxRunes == 4

--------------------------------------------------------------------------
(* The program's alphabets *)

\* "!@#$%^&*()-_=+[]{}|;:,.<>/?"
Symbols ==
    <<33, 64, 35, 36, 37, 94, 38, 42, 40, 41, 45, 95, 61, 43, 91, 93, 123,
      125, 124, 59, 58, 44, 46, 60, 62, 47, 63>>

\* "0123456789"
Numbers == [n \in 1..10 |-> 47 + n]

\* "ABCDEFGHIJKLMNOPQRSTUVWXYZ"
UpperLetters == [n \in 1..26 |-> 64 + n]

\* "abcdefghijklmnopqrstuvwxyz"
LowerLetters == [n \in 1..26 |-> 96 + n]

\* "iIl1Lo0O"
similarCharacters == <<105, 73, 108, 49, 76, 111, 48, 79>>

\* the sentinel ' ' of generateNonSequentialChars
Space == 32

Range(s) == {s[n] : n \in 1..Len(s)}

\* the characters on which the entropy source is explored: "!@#", "012",
\* "IJK" and "abc".  Every class is there, with runs of three consecutive
\* ordinals ("012", "IJK", "abc") and similar characters ('0', '1', 'I')
ExploredChars ==
    Range(SubSeq(Symbols, 1, 3)) \cup Range(SubSeq(Numbers, 1, 3))
        \cup Range(SubSeq(UpperLetters, 9, 11))
        \cup Range(SubSeq(LowerLetters, 1, 3))

\* rand.Int(rand.Reader, max) with max = len(chars) > 0 and a nil error: the
\* indices (from 1) it may return
RandIndex(chars) == {n \in 1..Len(chars) : chars[n] \in ExploredChars}

--------------------------------------------------------------------------
(* Pure functions of password.go *)

\* a pool built without looking at the inclusion flags
buildCharacterSetAll(o) ==
    Symbols \o Numbers \o UpperLetters \o LowerLetters

buildCharacterSet(o) ==
    (IF o.IncludeSymbols THEN Symbols ELSE <<>>)
        \o (IF o.IncludeNumbers THEN Numbers ELSE <<>>)
        \o (IF o.IncludeUpper THEN UpperLetters ELSE <<>>)
        \o (IF o.IncludeLower THEN LowerLetters ELSE <<>>)

\* a first-letter draw made from the whole pool
letterSetWholePool(o) == buildCharacterSet(o)

\* the letters string getRandomLetter samples from
letterSet(o) ==
    (IF o.IncludeUpper THEN UpperLetters ELSE <<>>)
        \o (IF o.IncludeLower THEN LowerLetters ELSE <<>>)

\* the charSets string of getRandomRune
charSets == UpperLetters \o LowerLetters \o Numbers

\* strings.ReplaceAll(s, string(c), "")
ReplaceAllEmpty(s, c) == SelectSeq(s, LAMBDA x : x # c)

RECURSIVE removeSimilarFrom(_, _)
removeSimilarFrom(s, n) ==
    IF n > Len(similarCharacters) THEN s
    ELSE removeSimilarFrom(ReplaceAllEmpty(s, similarCharacters[n]), n + 1)

removeSimilarCharacters(s) == removeSimilarFrom(s, 1)

RECURSIVE removeDuplicateFrom(_, _, _, _)
removeDuplicateFrom(s, n, seen, res) ==
    IF n > Len(s) THEN res
    ELSE IF s[n] \in seen THEN removeDuplicateFrom(s, n + 1, seen, res)
    ELSE removeDuplicateFrom(s, n + 1, seen \cup {s[n]}, Append(res, s[n]))

removeDuplicateCharacters(s) == removeDuplicateFrom(s, 1, {}, <<>>)

isSequential(a, b, c) ==
    (b = a + 1 /\ c = b + 1) \/ (b = a - 1 /\ c = b - 1)

\* a check that skips every drawn character
rejectsCharAlways(rs, index, randomChar) == TRUE

\* the condition under which generateNonSequentialChars skips a drawn
\* character; index counts from 0 as in the code
rejectsChar(rs, index, randomChar) ==
    \/ (index > 0 /\ isSequential(rs[index], randomChar, Space))
    \/ (index + 3 < Len(rs) /\ isSequential(randomChar, rs[index + 4], Space))

\* a scan that steps over one character only after it replaced a run
AfterRunNoSkip(n) == n + 1

\* the scan index after a replaced run: i += 2, then the loop's i++
AfterRun(n) == n + 2 + 1

\* a replacement of which only the first character is written
writeReplacementFirst(res, replacement) == Append(res, replacement[1])

\* result.WriteString(replacement)
writeReplacement(res, replacement) == res \o replacement

\* lines 121-129 of generatePassword: the candidate after similar and
\* duplicate removal
postProcess(o, s) ==
    LET s1 == IF o.NoSimilar THEN removeSimilarCharacters(s) ELSE s
    IN  IF o.NoDuplicates THEN removeDuplicateCharacters(s1) ELSE s1

--------------------------------------------------------------------------
(* The requests explored *)

Requests ==
    {o \in [Length : -1..MaxLength, Quantity : -1..MaxQuantity,
            IncludeSymbols : BOOLEAN, IncludeNumbers : BOOLEAN,
            IncludeUpper : BOOLEAN, IncludeLower : BOOLEAN,
            BeginWithLetter : BOOLEAN, NoSimilar : BOOLEAN,
            NoDuplicates : BOOLEAN, NoSequential : BOOLEAN] :
        (o.Length > 0 /\ o.Quantity > 0) => o.Length * o.Quantity <= MaxBatchChars}

Init ==
    /\ opts \in Requests
    /\ pc = "batch"
    /\ i = 0
    /\ passwords = <<>>
    /\ password = <<>>
    /\ j = 0
    /\ runes = <<>>
    /\ k = 0
    /\ result = <<>>
    /\ replacementRunes = <<>>
    /\ outcome = "running"
    /\ returned = <<>>
    /\ sampled = FALSE
    /\ entropyFailed = FALSE
    /\ repaired = FALSE

\* the locals of generatePassword and below are gone once it returns
ClearLocals ==
    /\ password' = <<>>
    /\ j' = 0
    /\ runes' = <<>>
    /\ k' = 0
    /\ result' = <<>>
    /\ replacementRunes' = <<>>

\* the call ends: GeneratePasswords returns (list, err) or the goroutine panics
Finish(how, list) ==
    /\ pc' = "done"
    /\ outcome' = how
    /\ returned' = list
    /\ passwords' = <<>>
    /\ ClearLocals

\* a batch loop that keeps only the password of its last iteration
ReturnPasswordOverwrite(s) ==
    /\ passwords' = <<s>>
    /\ i' = i + 1
    /\ pc' = "batch"
    /\ ClearLocals
    /\ UNCHANGED <<opts, outcome, returned, sampled, entropyFailed, repaired>>

\* generatePassword returns (s, nil): GeneratePasswords appends and loops
ReturnPassword(s) ==
    /\ passwords' = Append(passwords, s)
    /\ i' = i + 1
    /\ pc' = "batch"
    /\ ClearLocals
    /\ UNCHANGED <<opts, outcome, returned, sampled, entropyFailed, repaired>>

--------------------------------------------------------------------------
(* GeneratePasswords *)

\* the loop condition i < opts.Quantity fails: return passwords, nil
BatchReturn ==
    /\ pc = "batch"
    /\ ~(i < opts.Quantity)
    /\ Finish("ok", passwords)
    /\ UNCHANGED <<opts, i, sampled, entropyFailed, repaired>>

\* generatePassword: chars == "" returns an error, GeneratePasswords returns
\* nil, err
GenerateNoCharacterType ==
    /\ pc = "batch"
    /\ i < opts.Quantity
    /\ buildCharacterSet(opts) = <<>>
    /\ Finish("error", <<>>)
    /\ UNCHANGED <<opts, i, sampled, entropyFailed, repaired>>

\* generatePassword: make([]byte, opts.Length) with a negative length panics
GenerateMakePanic ==
    /\ pc = "batch"
    /\ i < opts.Quantity
    /\ buildCharacterSet(opts) # <<>>
    /\ opts.Length < 0
    /\ Finish("panic", <<>>)
    /\ UNCHANGED <<opts, i, sampled, entropyFailed, repaired>>

\* generatePassword: the buffer is made and the assembly loop entered
GenerateStart ==
    /\ pc = "batch"
    /\ i < opts.Quantity
    /\ buildCharacterSet(opts) # <<>>
    /\ opts.Length >= 0
    /\ password' = [n \in 1..opts.Length |-> 0]
    /\ j' = 0
    /\ pc' = "assemble"
    /\ UNCHANGED <<opts, i, passwords, runes, k, result, replacementRunes,
                   outcome, returned, sampled, entropyFailed, repaired>>

--------------------------------------------------------------------------
(* generatePassword: the assembly loop *)

\* the string position j is sampled from
sampleSet == IF j = 0 /\ opts.BeginWithLetter
             THEN letterSet(opts) ELSE buildCharacterSet(opts)

\* secureRandomChar(""): rand.Int panics on an argument <= 0
AssemblePanic ==
    /\ pc = "assemble"
    /\ j < opts.Length
    /\ Len(sampleSet) = 0
    /\ Finish("panic", <<>>)
    /\ UNCHANGED <<opts, i, sampled, entropyFailed, repaired>>

\* secureRandomChar: rand.Int fails, the error goes up to the caller
AssembleEntropyFailure ==
    /\ pc = "assemble"
    /\ j < opts.Length
    /\ Len(sampleSet) > 0
    /\ sampled' = TRUE
    /\ entropyFailed' = TRUE
    /\ Finish("error", <<>>)
    /\ UNCHANGED <<opts, i, repaired>>

\* secureRandomChar: password[j] = chars[index]
AssembleDraw ==
    /\ pc = "assemble"
    /\ j < opts.Length
    /\ Len(sampleSet) > 0
    /\ \E index \in RandIndex(sampleSet) :
           password' = [password EXCEPT ![j + 1] = sampleSet[index]]
    /\ j' = j + 1
    /\ sampled' = TRUE
    /\ UNCHANGED <<opts, pc, i, passwords, runes, k, result,
                   replacementRunes, outcome, returned, entropyFailed,
                   repaired>>

\* the loop is over, NoSequential is off: post-process and return
AssembleReturn ==
    /\ pc = "assemble"
    /\ ~(j < opts.Length)
    /\ ~opts.NoSequential
    /\ ReturnPassword(postProcess(opts, password))

\* the loop is over, NoSequential is on: post-process and enter
\* removeSequentialCharacters
AssembleRepair ==
    /\ pc = "assemble"
    /\ ~(j < opts.Length)
    /\ opts.NoSequential
    /\ runes' = postProcess(opts, password)
    /\ k' = 0
    /\ result' = <<>>
    /\ pc' = "repair"
    /\ password' = <<>>
    /\ j' = 0
    /\ UNCHANGED <<opts, i, passwords, replacementRunes, outcome, returned,
                   sampled, entropyFailed, repaired>>

--------------------------------------------------------------------------
(* removeSequentialCharacters and generateNonSequentialChars *)

runAt(rs, n) ==
    n + 2 < Len(rs) /\ isSequential(rs[n + 1], rs[n + 2], rs[n + 3])

\* no run at k: result.WriteRune(runes[k])
RepairKeep ==
    /\ pc = "repair"
    /\ k < Len(runes)
    /\ ~runAt(runes, k)
    /\ result' = Append(result, runes[k + 1])
    /\ k' = k + 1
    /\ UNCHANGED <<opts, pc, i, passwords, password, j, runes,
                   replacementRunes, outcome, returned, sampled,
                   entropyFailed, repaired>>

\* a run at k: generateNonSequentialChars(runes, k) is entered
RepairRun ==
    /\ pc = "repair"
    /\ k < Len(runes)
    /\ runAt(runes, k)
    /\ replacementRunes' = <<>>
    /\ pc' = "redraw"
    /\ UNCHANGED <<opts, i, passwords, password, j, runes, k, result,
                   outcome, returned, sampled, entropyFailed, repaired>>

\* getRandomRune draws; the character is skipped or appended
RedrawDraw ==
    /\ pc = "redraw"
    /\ Len(replacementRunes) < 3
    /\ \E index \in RandIndex(charSets) :
           replacementRunes' =
               IF rejectsChar(runes, k, charSets[index])
               THEN replacementRunes
               ELSE Append(replacementRunes, charSets[index])
    /\ sampled' = TRUE
    /\ UNCHANGED <<opts, pc, i, passwords, password, j, runes, k, result,
                   outcome, returned, entropyFailed, repaired>>

\* getRandomRune: rand.Int fails, the error is dropped and index is nil:
\* index.Int64() dereferences it
RedrawEntropyFailure ==
    /\ pc = "redraw"
    /\ Len(replacementRunes) < 3
    /\ sampled' = TRUE
    /\ entropyFailed' = TRUE
    /\ Finish("panic", <<>>)
    /\ UNCHANGED <<opts, i, repaired>>

\* the replacement is complete: it is written and the scan skips the run
RedrawDone ==
    /\ pc = "redraw"
    /\ ~(Len(replacementRunes) < 3)
    /\ result' = writeReplacement(result, replacementRunes)
    /\ k' = AfterRun(k)
    /\ replacementRunes' = <<>>
    /\ pc' = "repair"
    /\ repaired' = TRUE
    /\ UNCHANGED <<opts, i, passwords, password, j, runes, outcome,
                   returned, sampled, entropyFailed>>

\* the scan is over: result.String() is the password
RepairReturn ==
    /\ pc = "repair"
    /\ ~(k < Len(runes))
    /\ ReturnPassword(result)

--------------------------------------------------------------------------

Next ==
    \/ BatchReturn
    \/ GenerateNoCharacterType
    \/ GenerateMakePanic
    \/ GenerateStart
    \/ AssemblePanic
    \/ AssembleEntropyFailure
    \/ AssembleDraw
    \/ AssembleReturn
    \/ AssembleRepair
    \/ RepairKeep
    \/ RepairRun
    \/ RedrawDraw
    \/ RedrawEntropyFailure
    \/ RedrawDone
    \/ RepairReturn

Spec == Init /\ [][Next]_vars

--------------------------------------------------------------------------
(* removeSequentialCharacters on its own: the call has assembled a candidate *)
(* of up to MaxRunes characters and enters the repair                        *)

\* the candidates: every string of explored characters up to MaxRunes long
RepairInputs == UNION {[1..n -> ExploredChars] : n \in 0..MaxRunes}

\* the state AssembleRepair leaves for a request of one password with every
\* class enabled and NoSequential alone set
InitRepair ==
    /\ runes \in RepairInputs
    /\ opts = [Length |-> Len(runes), Quantity |-> 1,
               IncludeSymbols |-> TRUE, IncludeNumbers |-> TRUE,
               IncludeUpper |-> TRUE, IncludeLower |-> TRUE,
               BeginWithLetter |-> FALSE, NoSimilar |-> FALSE,
               NoDuplicates |-> FALSE, NoSequential |-> TRUE]
    /\ pc = "repair"
    /\ i = 0
    /\ passwords = <<>>
    /\ password = <<>>
    /\ j = 0
    /\ k = 0
    /\ result = <<>>
    /\ replacementRunes = <<>>
    /\ outcome = "running"
    /\ returned = <<>>
    /\ sampled = (Len(runes) > 0)
    /\ entropyFailed = FALSE
    /\ repaired = FALSE

NextRepair ==
    \/ RepairKeep
    \/ RepairRun
    \/ RedrawDraw
    \/ RedrawEntropyFailure
    \/ RedrawDone
    \/ RepairReturn

SpecRepair == InitRepair /\ [][NextRepair]_vars

--------------------------------------------------------------------------
(* Calls that must return: Length >= 0, Quantity >= 0, a non-empty pool, a  *)
(* letter class if BeginWithLetter is set, an entropy source that answers   *)

\* the requests of Init that meet the conditions
InitAnswering ==
    /\ Init
    /\ opts.Length >= 0
    /\ opts.Quantity >= 0
    /\ buildCharacterSet(opts) # <<>>
    /\ opts.BeginWithLetter => letterSet(opts) # <<>>

\* the steps of such a call: rand.Int never fails, nothing panics
NextAnswering ==
    \/ BatchReturn
    \/ GenerateStart
    \/ AssembleDraw
    \/ AssembleReturn
    \/ AssembleRepair
    \/ RepairKeep
    \/ RepairRun
    \/ RedrawDraw
    \/ RedrawDone
    \/ RepairReturn

\* the call is synchronous and single-threaded: it keeps running while it
\* has a step to take.  The calls start at their entry, or in the repair of
\* a candidate of up to MaxRunes characters (runs with neighbours)
SpecAnswering ==
    /\ (InitAnswering \/ InitRepair)
    /\ [][NextAnswering]_vars
    /\ WF_vars(NextAnswering)

--------------------------------------------------------------------------
(* The claims *)

\* GeneratePasswords returned a nil error
Succeeded == pc = "done" /\ outcome = "ok"

hasRun(p) ==
    \E n \in 1..(Len(p) - 2) : isSequential(p[n], p[n + 1], p[n + 2])

\* C1: a successful request with NoSequential returns no password holding
\* three consecutive characters of ascending or descending consecutive
\* ordinals.
C1_NoSequentialRun ==
    (Succeeded /\ opts.NoSequential) =>
        \A n \in 1..Len(returned) : ~hasRun(returned[n])

\* C2: a successful request with NoSimilar returns no password holding a
\* character of "iIl1Lo0O", whatever the other flags.
C2_NoSimilarCharacter ==
    (Succeeded /\ opts.NoSimilar) =>
        \A n \in 1..Len(returned) :
            Range(returned[n]) \cap Range(similarCharacters) = {}

\* C3: a successful request with NoDuplicates returns no password holding a
\* character twice, whatever the other flags.
C3_NoDuplicateCharacter ==
    (Succeeded /\ opts.NoDuplicates) =>
        \A n \in 1..Len(returned) :
            Cardinality(Range(returned[n])) = Len(returned[n])

noClassEnabled ==
    ~opts.IncludeSymbols /\ ~opts.IncludeNumbers /\ ~opts.IncludeUpper
        /\ ~opts.IncludeLower

\* C4: with the four inclusion flags false the call ends with an error, for
\* every Length and every Quantity from 0 on, and nothing was sampled.
C4_NoClassIsAnError ==
    (pc = "done" /\ noClassEnabled /\ opts.Quantity >= 0)
        => (outcome = "error" /\ ~sampled)

noLetterEnabled ==
    opts.BeginWithLetter /\ ~opts.IncludeUpper /\ ~opts.IncludeLower
        /\ (opts.IncludeSymbols \/ opts.IncludeNumbers)

\* C5: with BeginWithLetter and no letter class enabled (another class being
\* enabled) the call ends with an error returned to the caller, nothing
\* sampled, no crash and no password.  Stated for the requests that reach the
\* first-letter draw: Length >= 1 and Quantity >= 1.
C5_NoLetterIsAnError ==
    (pc = "done" /\ noLetterEnabled /\ opts.Length >= 1 /\ opts.Quantity >= 1)
        => (outcome = "error" /\ ~sampled /\ returned = <<>>)

\* C6: with Length <= 0 or Quantity <= 0 and a class enabled the call ends
\* with an error and no list; never success with an empty list or with empty
\* passwords.
C6_NonPositiveIsAnError ==
    (pc = "done" /\ ~noClassEnabled
        /\ (opts.Length <= 0 \/ opts.Quantity <= 0))
        => (outcome = "error" /\ returned = <<>>)

\* C7: when the secure random source fails at any draw of the batch
\* (assembly, first letter, replacement draws of the repair) the call ends
\* with an error and a nil list.
C7_EntropyFailureIsAnError ==
    (pc = "done" /\ entropyFailed) => (outcome = "error" /\ returned = <<>>)

\* C8: with a non-empty pool, Length >= 1, NoSimilar and NoDuplicates off
\* (NoSequential and BeginWithLetter either way), every password produced,
\* in the list being built and in the list returned, has exactly Length
\* characters.
C8_LengthIsExact ==
    (buildCharacterSet(opts) # <<>> /\ opts.Length >= 1
        /\ ~opts.NoSimilar /\ ~opts.NoDuplicates)
        => /\ \A n \in 1..Len(passwords) : Len(passwords[n]) = opts.Length
           /\ \A n \in 1..Len(returned) : Len(returned[n]) = opts.Length

\* C8 happens: a batch returned after the sequential repair replaced a run,
\* first character drawn by getRandomLetter
C8_Witness ==
    /\ Succeeded
    /\ repaired
    /\ opts.BeginWithLetter
    /\ ~opts.NoSimilar /\ ~opts.NoDuplicates
    /\ Len(returned) = opts.Quantity
    /\ opts.Quantity >= 1

hasEnabledClasses(p) ==
    /\ opts.IncludeSymbols => Range(p) \cap Range(Symbols) # {}
    /\ opts.IncludeNumbers => Range(p) \cap Range(Numbers) # {}
    /\ opts.IncludeUpper => Range(p) \cap Range(UpperLetters) # {}
    /\ opts.IncludeLower => Range(p) \cap Range(LowerLetters) # {}

enabledClasses ==
    Cardinality({c \in {"symbols", "numbers", "upper", "lower"} :
        \/ c = "symbols" /\ opts.IncludeSymbols
        \/ c = "numbers" /\ opts.IncludeNumbers
        \/ c = "upper" /\ opts.IncludeUpper
        \/ c = "lower" /\ opts.IncludeLower})

\* C9: every password of a successful request holds a character of each
\* enabled class.  Stated for the requests whose Length has room for one
\* character of each enabled class and whose candidate is returned as
\* assembled (NoSimilar, NoDuplicates and NoSequential off).
C9_EveryEnabledClassPresent ==
    (Succeeded /\ opts.Length >= enabledClasses
        /\ ~opts.NoSimilar /\ ~opts.NoDuplicates /\ ~opts.NoSequential) =>
        \A n \in 1..Len(returned) : hasEnabledClasses(returned[n])

\* C10: with BeginWithLetter and a letter class enabled, every non-empty
\* returned password starts with a letter, whatever NoSimilar, NoDuplicates
\* and NoSequential are.
C10_BeginsWithLetter ==
    (Succeeded /\ opts.BeginWithLetter
        /\ (opts.IncludeUpper \/ opts.IncludeLower))
        => \A n \in 1..Len(returned) :
               returned[n] # <<>> =>
                   returned[n][1] \in
                       Range(UpperLetters) \cup Range(LowerLetters)

noExclusion ==
    ~opts.NoSimilar /\ ~opts.NoDuplicates /\ ~opts.NoSequential

\* the letters of the enabled letter classes
enabledLetters ==
    (IF opts.IncludeUpper THEN Range(UpperLetters) ELSE {})
        \cup (IF opts.IncludeLower THEN Range(LowerLetters) ELSE {})

\* C11: with BeginWithLetter, a letter class enabled, Length >= 1 and no
\* exclusion flag, the first character of every password produced (in the
\* list being built and in the list returned) is a letter of an enabled
\* letter class: uppercase only if IncludeUpper, lowercase only if
\* IncludeLower.
C11_FirstIsEnabledLetter ==
    (opts.BeginWithLetter /\ (opts.IncludeUpper \/ opts.IncludeLower)
        /\ opts.Length >= 1 /\ noExclusion)
        => /\ \A n \in 1..Len(passwords) : passwords[n][1] \in enabledLetters
           /\ \A n \in 1..Len(returned) : returned[n][1] \in enabledLetters

\* C11 happens: a batch is returned whose pool holds digits and symbols
\* beside one letter class, first characters drawn by getRandomLetter
C11_Witness ==
    /\ Succeeded
    /\ opts.BeginWithLetter /\ noExclusion
    /\ opts.IncludeSymbols /\ opts.IncludeNumbers
    /\ opts.IncludeUpper /\ ~opts.IncludeLower
    /\ opts.Length >= 2
    /\ Len(returned) >= 1
    /\ returned[1][1] \in Range(UpperLetters)
    /\ returned[1][2] \in Range(Numbers)

\* C12: a request with Quantity = Q >= 1 in which no error occurs returns
\* exactly Q strings, one appended per iteration of the batch loop (the list
\* being built holds i passwords after i iterations).
C12_ExactlyQuantity ==
    /\ pc # "done" => Len(passwords) = i
    /\ (Succeeded /\ opts.Quantity >= 1) => Len(returned) = opts.Quantity

\* C12 happens: a batch of more than one password is returned
C12_Witness ==
    /\ Succeeded
    /\ opts.Quantity >= 2
    /\ Len(returned) = opts.Quantity
    /\ i = opts.Quantity

\* the characters of the enabled classes
enabledAlphabet ==
    (IF opts.IncludeSymbols THEN Range(Symbols) ELSE {})
        \cup (IF opts.IncludeNumbers THEN Range(Numbers) ELSE {})
        \cup (IF opts.IncludeUpper THEN Range(UpperLetters) ELSE {})
        \cup (IF opts.IncludeLower THEN Range(LowerLetters) ELSE {})

\* C13: without exclusion flags every character of every password produced
\* (in the list being built and in the list returned) belongs to an enabled
\* class; with one class enabled, to that class's alphabet.
C13_CharactersFromPool ==
    noExclusion =>
        /\ \A n \in 1..Len(passwords) : Range(passwords[n]) \subseteq enabledAlphabet
        /\ \A n \in 1..Len(returned) : Range(returned[n]) \subseteq enabledAlphabet

\* C13 happens: a batch drawn from the digits alone is returned
C13_Witness ==
    /\ Succeeded
    /\ noExclusion
    /\ opts.IncludeNumbers
    /\ ~opts.IncludeSymbols /\ ~opts.IncludeUpper /\ ~opts.IncludeLower
    /\ opts.Length >= 2
    /\ Len(returned) >= 1
    /\ Range(returned[1]) \subseteq Range(Numbers)
    /\ Len(returned[1]) = opts.Length

\* the start indices (from 0) of the runs the scan of
\* removeSequentialCharacters detects in rs, from index n on
RECURSIVE detectedRuns(_, _)
detectedRuns(rs, n) ==
    IF n >= Len(rs) THEN {}
    ELSE IF n + 2 < Len(rs) /\ isSequential(rs[n + 1], rs[n + 2], rs[n + 3])
         THEN {n} \cup detectedRuns(rs, n + 3)
         ELSE detectedRuns(rs, n + 1)

\* position n (from 1) of rs belongs to a detected run
inDetectedRun(rs, n) ==
    \E m \in detectedRuns(rs, 0) : n \in (m + 1)..(m + 3)

\* C14: removeSequentialCharacters returns a string as long as its input,
\* for every input and every replacement drawn: while it scans, the builder
\* holds exactly the k characters scanned, and every character outside a
\* detected run is at its position with its value; the password handed back
\* has the input's length.
C14_RepairKeepsLength ==
    /\ pc \in {"repair", "redraw"} =>
           /\ Len(result) = k
           /\ k <= Len(runes)
           /\ \A n \in 1..k : ~inDetectedRun(runes, n) => result[n] = runes[n]
    /\ (pc = "batch" /\ i = 1) => Len(passwords[1]) = opts.Length

\* C14 happens: the scan of a string with a run and a character after it is
\* over, the run replaced by other characters
C14_Witness ==
    /\ pc = "repair"
    /\ k = Len(runes)
    /\ Len(runes) = 4
    /\ repaired
    /\ detectedRuns(runes, 0) = {0}
    /\ SubSeq(result, 1, 3) # SubSeq(runes, 1, 3)
    /\ result[4] = runes[4]

\* the replacement written for the run detected at index m (from 0) forms
\* no ascending or descending triple with the character before the run or
\* with the character after it
cleanAtBoundaries(m) ==
    LET r1 == result[m + 1]
        r2 == result[m + 2]
        r3 == result[m + 3]
    IN  /\ m > 0 => ~isSequential(result[m], r1, r2)
        /\ m > 1 => ~isSequential(result[m - 1], result[m], r1)
        /\ m + 3 < Len(runes) => ~isSequential(r2, r3, runes[m + 4])
        /\ m + 4 < Len(runes) => ~isSequential(r3, runes[m + 4], runes[m + 5])

\* C15: a replacement for the run at index i is accepted only if it creates
\* no ascending or descending triple with the character at i-1 (when i > 0)
\* or with the character at i+3 (when it exists).
C15_ReplacementCleanAtBoundaries ==
    pc = "repair" =>
        \A m \in detectedRuns(runes, 0) : m + 3 <= k => cleanAtBoundaries(m)

\* C16: a call with Length >= 0, Quantity >= 0, a non-empty pool, a letter
\* class if BeginWithLetter is set and an entropy source that always answers
\* eventually returns its list: the batch loop, the assembly loop, the repair
\* scan and the redraw loop all finish.
C16_CallReturns == <>Succeeded

\* C16 happens: a call returned after repairing a run that had a neighbour
C16_Witness ==
    /\ Succeeded
    /\ repaired
    /\ Len(returned) = 1
    /\ Len(returned[1]) = 4

==========================================================================
